---------------------------- MODULE Spec2Model ----------------------------
(***************************************************************************)
(* The fallback execution engine of essay-mentor-api: the per-function     *)
(* fallback chains (app/utils/fallback/__init__.py), the per-model retry   *)
(* configuration (retry_logic.py), the per-model circuit breaker           *)
(* (circuit_breaker.py), the error classifier (error_classifier.py) and    *)
(* the usage log (app/utils/tracking).                                     *)
(*                                                                         *)
(* Text is a tuple of one-character strings, so that the classifier's      *)
(* lower-casing and substring tests are computed, not assumed.             *)
(* Time is the reading of time.time() in whole seconds.                    *)
(***************************************************************************)
EXTENDS Integers, Sequences, FiniteSets, TLC

VARIABLES
    now,          \* the clock: what time.time() returns
    breakers,     \* CircuitBreaker.breakers: model -> entry, keys created lazily
    store,        \* the token_usage table: a set of rows, id is the primary key
    pc,           \* where the execute_with_fallback invocation is
    function,     \* the invocation's function argument
    model_index,  \* position in the fallback chain (1-based)
    retry_count,  \* the retry loop's counter
    result,       \* what the last invocation returned or raised
    calls,        \* the adapter calls of this invocation, in order
    waits,        \* the wait_for_retry calls of this invocation, in order
    skipped,      \* the models this invocation skipped on an open breaker
    logged,       \* the log_usage calls of this invocation, in order
    invocations,  \* invocations started so far
    entered,      \* CircuitBreaker.breakers as it was when the invocation was entered
    backend,      \* the environment: how each model's backend answers in this run
    cb_call,      \* the last call made directly on the CircuitBreaker, with what it returned
    streak,       \* per model, the record_failure calls since its last record_success
    delay_call,   \* the last call of calculate_delay, with what it returned
    classify_call, \* the last call of classify_error, with what it returned
    cost_call,    \* the last call of calculate_cost, with what it returned
    report_call,  \* the last call of get_usage_report, with what it returned
    threads,      \* per request thread, where it is in the call it makes and its locals
    manager       \* the module global _fallback_manager and the instances made and returned

invocation == <<pc, function, model_index, retry_count, result, calls, waits,
                skipped, logged, invocations, entered>>
observer == <<cb_call, streak, delay_call, classify_call, cost_call, report_call>>
pool == <<threads, manager>>
vars == <<now, breakers, store, invocation, backend, observer, pool>>

None == "None"

(***************************************************************************)
(* Bounds of the model.                                                    *)
(***************************************************************************)
MaxInvocations == 2          \* invocations of a run with arbitrary backends
MaxSteadyInvocations == 6    \* invocations of a run with steady backends
MaxFailingInvocations == 3   \* invocations of a run with backends that never answer
MaxLiveInvocations == 1      \* invocations of a run on breakers in any state
MaxCounted == 1              \* invocations counted in a run of requests without end
MaxDay == 3                  \* days on which usage is logged and reported
MaxRows == 2                 \* rows in the usage log when a report is asked for
MaxEpoch == 1                \* recovery periods the clock may advance by
MaxOffset == 1               \* seconds the clock may advance by, within a period
MaxExtraFailures == 1        \* failures recorded past the threshold, per model
MaxRetryCount == 5           \* largest retry_count handed to calculate_delay
MaxKiloTokens == 2           \* largest token count of a call, in thousands
MaxThreads == 2              \* request threads of the server's pool
MaxThreadCalls == 3          \* calls each request thread makes
MaxFragments == 3            \* parts an error message is put together from

(***************************************************************************)
(* Text.                                                                   *)
(***************************************************************************)
Uppercase == <<"A","B","C","D","E","F","G","H","I","J","K","L","M",
               "N","O","P","Q","R","S","T","U","V","W","X","Y","Z">>
Lowercase == <<"a","b","c","d","e","f","g","h","i","j","k","l","m",
               "n","o","p","q","r","s","t","u","v","w","x","y","z">>

\* str.lower, for one character
Lower(c) ==
    IF \E i \in 1..Len(Uppercase) : Uppercase[i] = c
    THEN Lowercase[CHOOSE i \in 1..Len(Uppercase) : Uppercase[i] = c]
    ELSE c

LowerStr(s) == [i \in 1..Len(s) |-> Lower(s[i])]

\* Python's `pattern in error_str`
Contains(s, p) ==
    \E i \in 1..(Len(s) - Len(p) + 1) : SubSeq(s, i, i + Len(p) - 1) = p

(***************************************************************************)
(* ErrorClassifier                                                         *)
(***************************************************************************)
retryable_patterns ==
    << <<"rate_limit", <<<<"r","a","t","e"," ","l","i","m","i","t">>,
            <<"4","2","9">>,
            <<"t","o","o"," ","m","a","n","y"," ","r","e","q","u","e","s","t","s">>>>>>,
       <<"timeout", <<<<"t","i","m","e","o","u","t">>,
            <<"t","i","m","e","d"," ","o","u","t">>,
            <<"c","o","n","n","e","c","t","i","o","n"," ","t","i","m","e","o","u","t">>>>>>,
       <<"service_unavailable", <<<<"s","e","r","v","i","c","e"," ","u","n","a","v","a","i","l","a","b","l","e">>,
            <<"5","0","3">>,
            <<"s","e","r","v","e","r"," ","e","r","r","o","r">>>>>>,
       <<"connection_error", <<<<"c","o","n","n","e","c","t","i","o","n">>,
            <<"n","e","t","w","o","r","k">>,
            <<"c","o","n","n","e","c","t","i","o","n"," ","r","e","f","u","s","e","d">>>>>>,
       <<"internal_server_error", <<<<"i","n","t","e","r","n","a","l"," ","s","e","r","v","e","r"," ","e","r","r","o","r">>,
            <<"5","0","0">>,
            <<"s","e","r","v","e","r"," ","e","r","r","o","r">>>>>> >>

non_retryable_patterns ==
    << <<"invalid_api_key", <<<<"i","n","v","a","l","i","d"," ","a","p","i"," ","k","e","y">>,
            <<"4","0","1">>,
            <<"u","n","a","u","t","h","o","r","i","z","e","d">>,
            <<"a","u","t","h","e","n","t","i","c","a","t","i","o","n">>>>>>,
       <<"model_not_found", <<<<"m","o","d","e","l"," ","n","o","t"," ","f","o","u","n","d">>,
            <<"4","0","4">>,
            <<"m","o","d","e","l"," ","d","o","e","s"," ","n","o","t"," ","e","x","i","s","t">>>>>>,
       <<"invalid_request", <<<<"i","n","v","a","l","i","d"," ","r","e","q","u","e","s","t">>,
            <<"4","0","0">>,
            <<"b","a","d"," ","r","e","q","u","e","s","t">>,
            <<"m","a","l","f","o","r","m","e","d">>>>>>,
       <<"quota_exceeded", <<<<"q","u","o","t","a"," ","e","x","c","e","e","d","e","d">>,
            <<"b","i","l","l","i","n","g">>,
            <<"p","a","y","m","e","n","t"," ","r","e","q","u","i","r","e","d">>>>>>,
       <<"content_filter", <<<<"c","o","n","t","e","n","t"," ","f","i","l","t","e","r">>,
            <<"p","o","l","i","c","y"," ","v","i","o","l","a","t","i","o","n">>,
            <<"i","n","a","p","p","r","o","p","r","i","a","t","e">>>>>> >>

\* any(pattern in error_str for pattern in patterns), for the table's k-th kind
Matches(table, k, s) ==
    \E j \in 1..Len(table[k][2]) : Contains(s, table[k][2][j])

\* the first kind of the table, in its order, that matches; 0 when none does
FirstMatch(table, s) ==
    IF \E k \in 1..Len(table) : Matches(table, k, s)
    THEN CHOOSE k \in 1..Len(table) :
            /\ Matches(table, k, s)
            /\ \A h \in 1..(k - 1) : ~Matches(table, h, s)
    ELSE 0

\* classify_error scanning the non-retryable table first
classify_error_non_retryable_first(error) ==
    LET error_str == LowerStr(error)
        r == FirstMatch(retryable_patterns, error_str)
        n == FirstMatch(non_retryable_patterns, error_str)
    IN  IF n # 0 THEN <<non_retryable_patterns[n][1], FALSE>>
        ELSE IF r # 0 THEN <<retryable_patterns[r][1], TRUE>>
        ELSE <<"unknown", TRUE>>

\* classify_error(error) -> <<error_type, is_retryable>>
classify_error(error) ==
    LET error_str == LowerStr(error)
        r == FirstMatch(retryable_patterns, error_str)
        n == FirstMatch(non_retryable_patterns, error_str)
    IN  IF r # 0 THEN <<retryable_patterns[r][1], TRUE>>
        ELSE IF n # 0 THEN <<non_retryable_patterns[n][1], FALSE>>
        ELSE <<"unknown", TRUE>>

(***************************************************************************)
(* RetryLogic                                                              *)
(***************************************************************************)
\* Delays are in milliseconds: 2.0 seconds is 2000
\* every model given the "default" entry
retry_configs_all_default ==
    [ model \in {"gpt-4o", "gpt-4o-mini", "gpt-3.5-turbo", "default"} |->
        [max_retries |-> 3, base_delay |-> 1000, max_delay |-> 5000,
         exponential_backoff |-> TRUE,
         retryable_errors |-> {"rate_limit", "timeout", "service_unavailable"}] ]

\* _get_default_retry_configs (retryable_errors: the list, as the set it is
\* searched as)
retry_configs ==
    [ model \in {"gpt-4o", "gpt-4o-mini", "gpt-3.5-turbo", "default"} |->
        CASE model = "gpt-4o"        -> [max_retries |-> 2, base_delay |-> 2000,
                                         max_delay |-> 10000, exponential_backoff |-> TRUE,
                                         retryable_errors |->
                                            {"rate_limit", "timeout", "service_unavailable"}]
          [] model = "gpt-4o-mini"   -> [max_retries |-> 3, base_delay |-> 1500,
                                         max_delay |-> 8000, exponential_backoff |-> TRUE,
                                         retryable_errors |->
                                            {"rate_limit", "timeout", "service_unavailable",
                                             "connection_error"}]
          [] model = "gpt-3.5-turbo" -> [max_retries |-> 5, base_delay |-> 1000,
                                         max_delay |-> 5000, exponential_backoff |-> TRUE,
                                         retryable_errors |->
                                            {"rate_limit", "timeout", "service_unavailable",
                                             "connection_error", "internal_server_error"}]
          [] model = "default"       -> [max_retries |-> 3, base_delay |-> 1000,
                                         max_delay |-> 5000, exponential_backoff |-> TRUE,
                                         retryable_errors |->
                                            {"rate_limit", "timeout", "service_unavailable"}] ]

get_retry_config(model) ==
    IF model \in DOMAIN retry_configs THEN retry_configs[model]
    ELSE retry_configs["default"]

\* should_retry: lines 94-110
should_retry(rc, max_retries, error_type, retryable_errors) ==
    IF rc >= max_retries THEN FALSE
    ELSE error_type \in retryable_errors

\* 2 ** retry_count
RECURSIVE Pow2(_)
Pow2(n) == IF n = 0 THEN 1 ELSE 2 * Pow2(n - 1)

Min(a, b) == IF a < b THEN a ELSE b

\* What random.uniform(0.1, 0.3) draws, in thousandths
Jitters == {100, 150, 200, 250, 300}

\* calculate_delay without the cap of line 88
calculate_delay_uncapped(rc, base_delay, max_delay, exponential, draw) ==
    IF ~exponential THEN base_delay
    ELSE LET delay == base_delay * Pow2(rc)
             jitter == (draw * delay) \div 1000
         IN  delay + jitter

\* calculate_delay, for the value `draw` of random.uniform(0.1, 0.3)
calculate_delay(rc, base_delay, max_delay, exponential, draw) ==
    IF ~exponential THEN base_delay
    ELSE LET delay == Min(base_delay * Pow2(rc), max_delay)
             jitter == (draw * delay) \div 1000
         IN  delay + jitter

\* the delays calculate_delay may return for a retry configuration: from the
\* least to the greatest draw of the jitter
delay_range(rc, config) ==
    [ least |-> calculate_delay(rc, config.base_delay, config.max_delay,
                                config.exponential_backoff, 100),
      most  |-> calculate_delay(rc, config.base_delay, config.max_delay,
                                config.exponential_backoff, 300) ]

(***************************************************************************)
(* CircuitBreaker                                                          *)
(***************************************************************************)
failure_threshold == 5
recovery_timeout == 300

\* is_open answering false from the very second the timeout is reached (>=)
is_open_at_timeout(b, model, t) ==
    IF model \notin DOMAIN b THEN FALSE
    ELSE IF b[model].state = "open"
         THEN ~(t - b[model].last_failure >= recovery_timeout)
         ELSE FALSE

\* is_open: the value it returns, read at time t
is_open(b, model, t) ==
    IF model \notin DOMAIN b THEN FALSE
    ELSE IF b[model].state = "open"
         THEN ~(t - b[model].last_failure > recovery_timeout)
         ELSE FALSE

\* is_open starting the half-open trial with a failure_count of 0
is_open_effect_resets_count(b, model, t) ==
    IF /\ model \in DOMAIN b
       /\ b[model].state = "open"
       /\ t - b[model].last_failure > recovery_timeout
    THEN [b EXCEPT ![model].state = "half_open", ![model].half_open_calls = 0,
                   ![model].failure_count = 0]
    ELSE b

\* is_open: the breaker map it leaves (open -> half_open once the timeout passed)
is_open_effect(b, model, t) ==
    IF /\ model \in DOMAIN b
       /\ b[model].state = "open"
       /\ t - b[model].last_failure > recovery_timeout
    THEN [b EXCEPT ![model].state = "half_open", ![model].half_open_calls = 0]
    ELSE b

\* record_failure opening only past the threshold (> for >=)
record_failure_past_threshold(b, model, t) ==
    LET b1 == IF model \notin DOMAIN b
              THEN b @@ (model :> [state |-> "closed", failure_count |-> 0,
                                   last_failure |-> 0, half_open_calls |-> 0])
              ELSE b
        b2 == [b1 EXCEPT ![model].failure_count = @ + 1,
                         ![model].last_failure = t]
    IN  IF b2[model].failure_count > failure_threshold
        THEN [b2 EXCEPT ![model].state = "open"]
        ELSE b2

record_failure(b, model, t) ==
    LET b1 == IF model \notin DOMAIN b
              THEN b @@ (model :> [state |-> "closed", failure_count |-> 0,
                                   last_failure |-> 0, half_open_calls |-> 0])
              ELSE b
        b2 == [b1 EXCEPT ![model].failure_count = @ + 1,
                         ![model].last_failure = t]
    IN  IF b2[model].failure_count >= failure_threshold
        THEN [b2 EXCEPT ![model].state = "open"]
        ELSE b2

record_success(b, model) ==
    IF model \in DOMAIN b
    THEN [b EXCEPT ![model].failure_count = 0, ![model].state = "closed"]
    ELSE b

\* the entry of a model in self.breakers: <<entry>>, or <<>> when it has none
get_entry(b, model) ==
    IF model \notin DOMAIN b THEN <<>> ELSE <<b[model]>>

get_state(b, model) ==
    IF model \notin DOMAIN b THEN "closed" ELSE b[model].state

get_failure_count(b, model) ==
    IF model \notin DOMAIN b THEN 0 ELSE b[model].failure_count

(***************************************************************************)
(* TokenTracker, DatabaseManager                                           *)
(***************************************************************************)
ProviderEnum == {"ollama", "openai"}
FunctionEnum == {"ai_detection", "feedback", "guidance", "section_check"}
UsageStatusEnum == {"success", "failed", "fallback_used"}

\* OPENAI_PRICING: the price of 1000 tokens, in millionths of a dollar
OPENAI_PRICING ==
    [ m \in {"gpt-4o", "gpt-4o-mini", "gpt-4-turbo", "gpt-3.5-turbo"} |->
        CASE m = "gpt-4o"        -> [input |-> 5000,  output |-> 15000]
          [] m = "gpt-4o-mini"   -> [input |-> 150,   output |-> 600]
          [] m = "gpt-4-turbo"   -> [input |-> 10000, output |-> 30000]
          [] m = "gpt-3.5-turbo" -> [input |-> 500,   output |-> 1500] ]

\* calculate_cost pricing by the model alone, whatever the provider
calculate_cost_any_provider(provider, m, tokens_input, tokens_output) ==
    IF m \in DOMAIN OPENAI_PRICING
    THEN LET pricing == OPENAI_PRICING[m]
             input_cost == tokens_input * pricing.input
             output_cost == tokens_output * pricing.output
         IN  input_cost + output_cost
    ELSE 0

\* calculate_cost, in billionths of a dollar: (tokens / 1000) * price, with
\* the price in millionths, is tokens * price billionths
calculate_cost(provider, m, tokens_input, tokens_output) ==
    IF provider = "openai" /\ m \in DOMAIN OPENAI_PRICING
    THEN LET pricing == OPENAI_PRICING[m]
             input_cost == tokens_input * pricing.input
             output_cost == tokens_output * pricing.output
         IN  input_cost + output_cost
    ELSE 0

\* int(time.time() * 1000)
EpochMillis(t) == t * 1000

\* f"{provider}_{model}_{function}_{int(time.time() * 1000)}"
usage_id(provider, model, fn, t) == <<provider, model, fn, EpochMillis(t)>>

\* a usage row that names the model as fallback_model whatever its place
TokenUsage_always_fallback(provider, model, fn, status, error_message, fallback_model, rc, t) ==
    [ id             |-> usage_id(provider, model, fn, t),
      provider       |-> provider,
      model          |-> model,
      function       |-> fn,
      status         |-> status,
      error_message  |-> error_message,
      fallback_model |-> model,
      retry_count    |-> rc ]

\* the TokenUsage that log_usage builds at time t
TokenUsage(provider, model, fn, status, error_message, fallback_model, rc, t) ==
    [ id             |-> usage_id(provider, model, fn, t),
      provider       |-> provider,
      model          |-> model,
      function       |-> fn,
      status         |-> status,
      error_message  |-> error_message,
      fallback_model |-> fallback_model,
      retry_count    |-> rc ]

\* The INSERT of insert_usage commits: the database is reachable and writable
\* (io_ok) and no row holds the primary key yet.
InsertCommits(db, usage, io_ok) ==
    io_ok /\ \A r \in db : r.id # usage.id

\* insert_usage: the table it leaves
insert_usage(db, usage, io_ok) ==
    IF InsertCommits(db, usage, io_ok) THEN db \cup {usage} ELSE db

\* insert_usage without its try/except: a failed INSERT propagates
insert_usage_unguarded(db, usage, io_ok) == ~InsertCommits(db, usage, io_ok)

\* insert_usage: whether an exception leaves it (its try/except returns False)
insert_usage_raises(db, usage, io_ok) == FALSE

\* Provider(provider), Function(function), UsageStatus(status): a value that is
\* no member of the enum raises ValueError
log_usage_enum_error(provider, fn, status) ==
    \/ provider \notin ProviderEnum
    \/ fn \notin FunctionEnum
    \/ status \notin UsageStatusEnum

\* log_usage raising when insert_usage returns False
log_usage_raises_on_false(db, usage, io_ok) ==
    \/ log_usage_enum_error(usage.provider, usage.function, usage.status)
    \/ ~InsertCommits(db, usage, io_ok)

\* log_usage: whether an exception leaves it
log_usage_raises(db, usage, io_ok) ==
    \/ log_usage_enum_error(usage.provider, usage.function, usage.status)
    \/ insert_usage_raises(db, usage, io_ok)

\* log_usage: the table it leaves
log_usage(db, usage, io_ok) ==
    IF log_usage_enum_error(usage.provider, usage.function, usage.status)
    THEN db
    ELSE insert_usage(db, usage, io_ok)

\* The text of the names that are no member of Function
FunctionText(fn) ==
    CASE fn = "summary" -> <<"s","u","m","m","a","r","y">>
      [] OTHER -> <<"?">>

\* str(ValueError) of Function(fn): "'<fn>' is not a valid Function"
NotAValidFunction(fn) ==
    <<"'">> \o FunctionText(fn) \o
    <<"'"," ","i","s"," ","n","o","t"," ","a"," ","v","a","l","i","d"," ",
      "F","u","n","c","t","i","o","n">>

(***************************************************************************)
(* FallbackManager                                                         *)
(***************************************************************************)
\* _get_default_fallback_configs
fallback_configs ==
    [ fn \in FunctionEnum |->
        CASE fn = "ai_detection"  -> [primary_model  |-> "gpt-4o",
                                      fallback_chain |-> <<"gpt-4o-mini", "gpt-3.5-turbo">>]
          [] fn = "feedback"      -> [primary_model  |-> "gpt-4o",
                                      fallback_chain |-> <<"gpt-4o-mini", "gpt-3.5-turbo">>]
          [] fn = "guidance"      -> [primary_model  |-> "gpt-4o-mini",
                                      fallback_chain |-> <<"gpt-3.5-turbo">>]
          [] fn = "section_check" -> [primary_model  |-> "gpt-4o-mini",
                                      fallback_chain |-> <<"gpt-3.5-turbo">>] ]

get_fallback_chain(fn) ==
    IF fn \notin DOMAIN fallback_configs
    THEN <<"gpt-4o-mini">>
    ELSE <<fallback_configs[fn].primary_model>> \o fallback_configs[fn].fallback_chain

\* FallbackResult without its fallback_reason
FallbackResult_without_reason(success, response, model_used, rc, error_message, fallback_reason) ==
    [ success         |-> success,
      response        |-> response,
      model_used      |-> model_used,
      retry_count     |-> rc,
      error_message   |-> error_message,
      fallback_reason |-> None ]

\* FallbackResult naming the model only when it is a fallback
FallbackResult_fallback_only(success, response, model_used, rc, error_message, fallback_reason) ==
    [ success         |-> success,
      response        |-> response,
      model_used      |-> IF fallback_reason = None THEN None ELSE model_used,
      retry_count     |-> rc,
      error_message   |-> error_message,
      fallback_reason |-> fallback_reason ]

\* FallbackResult
FallbackResult(success, response, model_used, rc, error_message, fallback_reason) ==
    [ success         |-> success,
      response        |-> response,
      model_used      |-> model_used,
      retry_count     |-> rc,
      error_message   |-> error_message,
      fallback_reason |-> fallback_reason ]

\* what an invocation that ended by raising leaves to its caller
Raised(message) == [raised |-> message]

fallback_chain == get_fallback_chain(function)
model == fallback_chain[model_index]
retry_config == get_retry_config(model)

Models == {"gpt-4o", "gpt-4o-mini", "gpt-3.5-turbo"}

\* The messages of the errors the adapter factory and generate raise
MsgRateLimit == <<"R","a","t","e"," ","l","i","m","i","t"," ","e","x","c","e","e","d","e","d">>
MsgUnauthorized == <<"4","0","1"," ","U","n","a","u","t","h","o","r","i","z","e","d">>
MsgBoom == <<"b","o","o","m">>
MsgNetwork == <<"N","e","t","w","o","r","k"," ","d","o","w","n">>
MsgRequired == <<"l","l","m","_","a","d","a","p","t","e","r","_","f","u","n","c"," ",
                 "i","s"," ","r","e","q","u","i","r","e","d">>
AdapterMessages == {MsgRateLimit, MsgBoom, MsgNetwork, MsgUnauthorized}

\* The function names callers pass: two configured ones and one that is none
Callers == {"feedback", "guidance", "summary"}

\* classify_error, tabulated over the messages that occur
Classified ==
    [e \in AdapterMessages \cup {NotAValidFunction(fn) : fn \in Callers} |->
        classify_error(e)]

\* How a model's backend answers: anything, or steadily one way
Behaviours == {"ok", "retryable", "non_retryable"}

\* Backends that never answer: one raises errors of any kind, one always a
\* non-retryable one, and one always an error that the classifier calls
\* retryable and the model's RetryConfig.retryable_errors does not list
FailingBehaviours == {"failing", "non_retryable", "unlisted"}
MayReturn(m) == backend[m] \in {"any", "ok"}
MayRaise(m, e) ==
    \/ backend[m] \in {"any", "failing"}
    \/ backend[m] = "retryable" /\ Classified[e][2]
    \/ backend[m] = "non_retryable" /\ ~Classified[e][2]
    \/ /\ backend[m] = "unlisted"
       /\ Classified[e][2]
       /\ Classified[e][1] \notin get_retry_config(m).retryable_errors

\* The clock readings of a run: whole recovery periods (each one second longer
\* than recovery_timeout), or seconds around them
Epochs == {e * (recovery_timeout + 1) : e \in 0..MaxEpoch}
Seconds == {e * recovery_timeout + j : e \in 0..MaxEpoch, j \in 0..MaxOffset}

NoCall == [op |-> None]

\* The request threads: the endpoints are plain `def` functions, which the
\* server runs on the threads of a pool
Threads == 1..MaxThreads

\* a thread between two calls, having completed `done` of them
\*   loaded: the failure_count it read for the += of line 51
\*   ref:    whether its local `breaker` is the dict that self.breakers holds
\*           ("entry") or one that was replaced there since ("replaced")
ThreadIdle(done) == [pc |-> "idle", done |-> done, loaded |-> 0, ref |-> None]

InitProcess ==
    /\ now = 0
    /\ store = {}
    /\ pc = "idle"
    /\ function = None
    /\ model_index = 0
    /\ retry_count = 0
    /\ result = None
    /\ calls = <<>>
    /\ waits = <<>>
    /\ skipped = {}
    /\ logged = <<>>
    /\ invocations = 0
    /\ entered = <<>>
    /\ cb_call = NoCall
    /\ delay_call = NoCall
    /\ cost_call = NoCall
    /\ report_call = NoCall
    /\ streak = [m \in Models |-> 0]
    /\ threads = [t \in Threads |-> ThreadIdle(0)]
    /\ manager = [current |-> 0, created |-> 0, returned |-> {}]

\* the state after construction: a CircuitBreaker without entries
InitProgram ==
    /\ InitProcess
    /\ breakers = <<>>

\* the process after construction, every backend free to answer in any way
Init ==
    /\ InitProgram
    /\ backend = [m \in Models |-> "any"]
    /\ classify_call = NoCall

\* the process after construction, every backend steadily answering one way
InitSteady ==
    /\ InitProgram
    /\ backend \in [Models -> Behaviours]
    /\ classify_call = NoCall

\* the process after construction, no backend ever answering
InitFailing ==
    /\ InitProgram
    /\ backend \in [Models -> FailingBehaviours]
    /\ classify_call = NoCall

\* Entries that earlier invocations leave in self.breakers: one failure short
\* of the threshold, and opened by the failure that reached it
LeftEntries ==
    { [state |-> "closed", failure_count |-> failure_threshold - 1,
       last_failure |-> 0, half_open_calls |-> 0],
      [state |-> "open", failure_count |-> failure_threshold,
       last_failure |-> 0, half_open_calls |-> 0] }

\* the process as earlier invocations, whose rows the database did not take,
\* may have left it: any model without an entry, nearly open, or open
InitLive ==
    /\ InitProcess
    /\ \E S \in SUBSET Models : breakers \in [S -> LeftEntries]
    /\ backend = [m \in Models |-> "any"]
    /\ classify_call = NoCall

\* The entry of a breaker that has opened
OpenedEntries == {e \in LeftEntries : e.state = "open"}

\* The functions asked for while breakers recover: one with the full chain
\* and one that is not configured
RecoveryCallers == {"feedback", "summary"}

\* the process with some breakers open, the backends having come to answer
\* steadily one way
InitRecovery ==
    /\ InitProcess
    /\ \E S \in SUBSET Models : breakers \in [S -> OpenedEntries]
    /\ backend \in [Models -> Behaviours]
    /\ classify_call = NoCall

\* time passes, to one of the readings in `points`
Tick(points) ==
    /\ \E t \in points : t > now /\ now' = t
    /\ UNCHANGED <<breakers, store, invocation, backend, observer, pool>>

\* the missing-factory check made after the loop over the chain instead of
\* before it: the call runs as an invocation and raises at its end
InvokeWithoutAdapter_checked_late(fns, limit) ==
    /\ pc \in {"idle", "returned", "raised"}
    /\ invocations < limit
    /\ \E fn \in fns : function' = fn
    /\ invocations' = invocations + 1
    /\ entered' = breakers
    /\ pc' = "raised"
    /\ result' = Raised(MsgRequired)
    /\ model_index' = 0
    /\ retry_count' = 0
    /\ calls' = <<>>
    /\ waits' = <<>>
    /\ skipped' = {}
    /\ logged' = <<>>
    /\ breakers' = record_failure(breakers, get_fallback_chain(function')[1], now)
    /\ UNCHANGED <<now, store, backend, observer, pool>>

\* execute_with_fallback(function, ..., llm_adapter_func=None): lines 108-109
InvokeWithoutAdapter(fns, limit) ==
    /\ pc \in {"idle", "returned", "raised"}
    /\ invocations < limit
    /\ \E fn \in fns : function' = fn
    /\ invocations' = invocations + 1
    /\ entered' = breakers
    /\ pc' = "raised"
    /\ result' = Raised(MsgRequired)
    /\ model_index' = 0
    /\ retry_count' = 0
    /\ calls' = <<>>
    /\ waits' = <<>>
    /\ skipped' = {}
    /\ logged' = <<>>
    /\ UNCHANGED <<now, breakers, store, backend, observer, pool>>

\* execute_with_fallback(function, ..., llm_adapter_func): lines 108-115
Invoke(fns, limit) ==
    /\ pc \in {"idle", "returned", "raised"}
    /\ invocations < limit
    /\ \E fn \in fns : function' = fn
    /\ invocations' = invocations + 1
    /\ entered' = breakers
    /\ pc' = "for_model"
    /\ result' = None
    /\ model_index' = 1
    /\ retry_count' = 0
    /\ calls' = <<>>
    /\ waits' = <<>>
    /\ skipped' = {}
    /\ logged' = <<>>
    /\ UNCHANGED <<now, breakers, store, backend, observer, pool>>

\* execute_with_fallback called again and again: the invocations are counted
\* up to MaxCounted only
InvokeRepeatedly(fns) ==
    /\ pc \in {"idle", "returned", "raised"}
    /\ \E fn \in fns : function' = fn
    /\ invocations' = IF invocations < MaxCounted THEN invocations + 1 ELSE invocations
    /\ entered' = breakers
    /\ pc' = "for_model"
    /\ result' = None
    /\ model_index' = 1
    /\ retry_count' = 0
    /\ calls' = <<>>
    /\ waits' = <<>>
    /\ skipped' = {}
    /\ logged' = <<>>
    /\ UNCHANGED <<now, breakers, store, backend, observer, pool>>

\* the head of the loop over the chain: lines 115-123
ForModel ==
    /\ pc = "for_model"
    /\ model_index <= Len(fallback_chain)
    /\ breakers' = is_open_effect(breakers, model, now)
    /\ IF is_open(breakers, model, now)
       THEN /\ skipped' = skipped \cup {model}
            /\ model_index' = model_index + 1
            /\ pc' = "for_model"
       ELSE /\ skipped' = skipped
            /\ model_index' = model_index
            /\ pc' = "attempt"
    /\ retry_count' = 0
    /\ UNCHANGED <<now, store, function, result, calls, waits, logged,
                   invocations, entered, backend, observer, pool>>

\* the except branch without the non-retryable break (line 161-163 missing)
except_branch_retries_all(is_retryable, rc, max_retries) ==
    IF rc < max_retries THEN "wait" ELSE "record_failure"

\* the except branch giving up one attempt early (retry_count + 1 < max_retries)
except_branch_one_short(is_retryable, rc, max_retries) ==
    IF ~is_retryable THEN "break"
    ELSE IF rc + 1 < max_retries THEN "wait"
    ELSE "record_failure"

\* the except branch counting a non-retryable error against the breaker
except_branch_counts_non_retryable(is_retryable, rc, max_retries) ==
    IF ~is_retryable THEN "record_failure"
    ELSE IF rc < max_retries THEN "wait"
    ELSE "record_failure"

\* the except branch allowing one retry more (retry_count <= max_retries)
except_branch_one_more(is_retryable, rc, max_retries) ==
    IF ~is_retryable THEN "break"
    ELSE IF rc <= max_retries THEN "wait"
    ELSE "record_failure"

\* what the except branch does with a classified error: lines 161-177
except_branch(is_retryable, rc, max_retries) ==
    IF ~is_retryable THEN "break"
    ELSE IF rc < max_retries THEN "wait"
    ELSE "record_failure"

\* the except branch retrying only what should_retry allows for the model's
\* retryable_errors
Except_asks_should_retry(e, returned) ==
    LET is_retryable == Classified[e][2]
        listed == Classified[e][1] \in retry_config.retryable_errors
        branch == IF ~is_retryable THEN "break"
                  ELSE IF should_retry(retry_count, retry_config.max_retries,
                                       Classified[e][1], retry_config.retryable_errors)
                  THEN "wait"
                  ELSE IF listed THEN "record_failure" ELSE "break"
    IN
    /\ calls' = Append(calls, [model |-> model, retry_count |-> retry_count,
                               returned |-> returned,
                               outcome |-> IF is_retryable THEN "retryable"
                                           ELSE "non_retryable"])
    /\ IF branch = "break"
       THEN /\ model_index' = model_index + 1
            /\ pc' = "for_model"
            /\ breakers' = breakers
       ELSE IF branch = "wait"
       THEN /\ model_index' = model_index
            /\ pc' = "wait"
            /\ breakers' = breakers
       ELSE /\ model_index' = model_index + 1
            /\ pc' = "for_model"
            /\ breakers' = record_failure(breakers, model, now)
    /\ UNCHANGED <<now, function, result, retry_count, waits, skipped,
                   invocations, entered, backend, observer, pool>>

\* the except branch, for the exception with message e: lines 158-177
\* (returned: whether adapter.generate had returned before e was raised)
Except(e, returned) ==
    LET is_retryable == Classified[e][2]
        branch == except_branch(is_retryable, retry_count, retry_config.max_retries)
    IN
    /\ calls' = Append(calls, [model |-> model, retry_count |-> retry_count,
                               returned |-> returned,
                               outcome |-> IF is_retryable THEN "retryable"
                                           ELSE "non_retryable"])
    /\ IF branch = "break"
       THEN /\ model_index' = model_index + 1
            /\ pc' = "for_model"
            /\ breakers' = breakers
       ELSE IF branch = "wait"
       THEN /\ model_index' = model_index
            /\ pc' = "wait"
            /\ breakers' = breakers
       ELSE /\ model_index' = model_index + 1
            /\ pc' = "for_model"
            /\ breakers' = record_failure(breakers, model, now)
    /\ UNCHANGED <<now, function, result, retry_count, waits, skipped,
                   invocations, entered, backend, observer, pool>>

\* one attempt in which the factory or generate raises: lines 124-129, 158-177
AttemptError ==
    /\ pc = "attempt"
    /\ \E e \in AdapterMessages : MayRaise(model, e) /\ Except(e, FALSE)
    /\ UNCHANGED <<store, logged>>

\* one attempt in which generate returns: lines 124-156, and 158-177 when
\* log_usage raises inside the try. io: whether the database can be written.
AttemptSuccess(io) ==
    /\ pc = "attempt"
    /\ MayReturn(model)
    /\ \E io_ok \in io :
        LET usage == TokenUsage("openai", model, function, "success", None,
                                IF model_index > 1 THEN model ELSE None,
                                retry_count, now)
        IN  IF log_usage_raises(store, usage, io_ok)
            THEN /\ Except(IF log_usage_enum_error(usage.provider, usage.function, usage.status)
                           THEN NotAValidFunction(function)
                           ELSE MsgBoom, TRUE)
                 /\ UNCHANGED <<store, logged>>
            ELSE /\ store' = log_usage(store, usage, io_ok)
                 /\ logged' = Append(logged, [usage |-> usage, io_ok |-> io_ok,
                                              persisted |-> InsertCommits(store, usage, io_ok)])
                 /\ breakers' = record_success(breakers, model)
                 /\ calls' = Append(calls, [model |-> model, retry_count |-> retry_count,
                                            returned |-> TRUE, outcome |-> "success"])
                 /\ result' = FallbackResult(TRUE,
                                  [by |-> model, attempt |-> retry_count],
                                  model, retry_count, None,
                                  IF model_index > 1 THEN <<"Used fallback model", model>>
                                  ELSE None)
                 /\ pc' = "returned"
                 /\ UNCHANGED <<now, function, model_index, retry_count, waits,
                                skipped, invocations, entered, backend, observer, pool>>

\* the delay calculated from the retry_count of the attempt to come
WaitForRetry_delay_of_next ==
    /\ pc = "wait"
    /\ waits' = Append(waits, [model |-> model, retry_count |-> retry_count,
                               delay |-> delay_range(retry_count + 1, retry_config)])
    /\ retry_count' = retry_count + 1
    /\ pc' = "attempt"
    /\ UNCHANGED <<now, breakers, store, function, model_index, result, calls,
                   skipped, logged, invocations, entered, backend, observer, pool>>

\* the retry loop stepping its counter by two
WaitForRetry_skips_attempt ==
    /\ pc = "wait"
    /\ waits' = Append(waits, [model |-> model, retry_count |-> retry_count,
                               delay |-> delay_range(retry_count, retry_config)])
    /\ retry_count' = retry_count + 2
    /\ pc' = "attempt"
    /\ UNCHANGED <<now, breakers, store, function, model_index, result, calls,
                   skipped, logged, invocations, entered, backend, observer, pool>>

\* calculate_delay and wait_for_retry, then the next retry_count: lines 165-173
WaitForRetry ==
    /\ pc = "wait"
    /\ waits' = Append(waits, [model |-> model, retry_count |-> retry_count,
                               delay |-> delay_range(retry_count, retry_config)])
    /\ retry_count' = retry_count + 1
    /\ pc' = "attempt"
    /\ UNCHANGED <<now, breakers, store, function, model_index, result, calls,
                   skipped, logged, invocations, entered, backend, observer, pool>>

\* after the loop: lines 179-195
AllModelsFailed(io) ==
    /\ pc = "for_model"
    /\ model_index > Len(fallback_chain)
    /\ \E io_ok \in io :
        LET usage == TokenUsage("openai", "unknown", function, "failed",
                                "All fallback models failed", None, 0, now)
        IN  IF log_usage_raises(store, usage, io_ok)
            THEN /\ result' = Raised(IF log_usage_enum_error(usage.provider, usage.function, usage.status)
                                     THEN NotAValidFunction(function)
                                     ELSE MsgBoom)
                 /\ pc' = "raised"
                 /\ UNCHANGED <<store, logged>>
            ELSE /\ store' = log_usage(store, usage, io_ok)
                 /\ logged' = Append(logged, [usage |-> usage, io_ok |-> io_ok,
                                              persisted |-> InsertCommits(store, usage, io_ok)])
                 /\ result' = FallbackResult(FALSE, None, None, 0,
                                  "All fallback models failed",
                                  "Exhausted all fallback options")
                 /\ pc' = "returned"
    /\ UNCHANGED <<now, breakers, function, model_index, retry_count, calls,
                   waits, skipped, invocations, entered, backend, observer, pool>>

\* Requests of any kind against backends that answer in any way, and a
\* database that may fail
Next ==
    \/ Tick(Epochs)
    \/ InvokeWithoutAdapter(Callers, MaxInvocations)
    \/ Invoke(Callers, MaxInvocations)
    \/ ForModel
    \/ AttemptError
    \/ AttemptSuccess(BOOLEAN)
    \/ WaitForRetry
    \/ AllModelsFailed(BOOLEAN)

Spec == Init /\ [][Next]_vars

\* A longer run of requests against steady backends and a healthy database
NextSteady ==
    \/ Tick(Epochs)
    \/ Invoke(Callers, MaxSteadyInvocations)
    \/ ForModel
    \/ AttemptError
    \/ AttemptSuccess({TRUE})
    \/ WaitForRetry
    \/ AllModelsFailed({TRUE})

SpecSteady == InitSteady /\ [][NextSteady]_vars

\* A longer run of requests against backends that never answer
NextFailing ==
    \/ Tick(Epochs)
    \/ Invoke(Callers, MaxFailingInvocations)
    \/ ForModel
    \/ AttemptError
    \/ WaitForRetry
    \/ AllModelsFailed({TRUE})

SpecFailing == InitFailing /\ [][NextFailing]_vars

\* The steps of a running invocation: execute_with_fallback is one thread of
\* synchronous code, in which every adapter call returns or raises and every
\* time.sleep ends
Running == pc \in {"for_model", "attempt", "wait"}
InvocationStep ==
    \/ ForModel
    \/ AttemptError
    \/ AttemptSuccess(BOOLEAN)
    \/ WaitForRetry
    \/ AllModelsFailed(BOOLEAN)

\* Requests against backends that answer in any way, on breakers in any state,
\* a started invocation always taking its next step
NextLive ==
    \/ Tick(Epochs)
    \/ Invoke(Callers, MaxLiveInvocations)
    \/ ForModel
    \/ AttemptError
    \/ AttemptSuccess(BOOLEAN)
    \/ WaitForRetry
    \/ AllModelsFailed(BOOLEAN)

\* where the invocation is: each of its steps changes this
position == <<pc, model_index, retry_count>>

SpecLive == InitLive /\ [][NextLive]_vars /\ WF_position(InvocationStep)

\* Requests without end on breakers in any state, against steady backends
\* and a healthy database, while the clock keeps advancing
NextRecovery ==
    \/ Tick(Epochs)
    \/ InvokeRepeatedly(RecoveryCallers)
    \/ ForModel
    \/ AttemptError
    \/ AttemptSuccess({TRUE})
    \/ WaitForRetry
    \/ AllModelsFailed({TRUE})

SpecRecovery ==
    /\ InitRecovery
    /\ [][NextRecovery]_vars
    /\ WF_position(InvocationStep)
    /\ WF_now(Tick(Epochs))

(***************************************************************************)
(* The CircuitBreaker called directly                                      *)
(***************************************************************************)
BreakerModels == {"gpt-4o", "gpt-4o-mini"}

CallIsOpen ==
    /\ \E m \in BreakerModels :
        /\ cb_call' = [op |-> "is_open", model |-> m, at |-> now,
                       before |-> get_entry(breakers, m),
                       returned |-> is_open(breakers, m, now)]
        /\ breakers' = is_open_effect(breakers, m, now)
    /\ UNCHANGED <<now, store, invocation, backend, streak, delay_call, classify_call, cost_call, report_call, pool>>

CallRecordFailure ==
    /\ \E m \in BreakerModels :
        /\ get_failure_count(breakers, m) < failure_threshold + MaxExtraFailures
        /\ cb_call' = [op |-> "record_failure", model |-> m, at |-> now,
                       before |-> get_entry(breakers, m), returned |-> None]
        /\ breakers' = record_failure(breakers, m, now)
        /\ streak' = [streak EXCEPT ![m] = @ + 1]
    /\ UNCHANGED <<now, store, invocation, backend, delay_call, classify_call, cost_call, report_call, pool>>

CallRecordSuccess ==
    /\ \E m \in BreakerModels :
        /\ cb_call' = [op |-> "record_success", model |-> m, at |-> now,
                       before |-> get_entry(breakers, m), returned |-> None]
        /\ breakers' = record_success(breakers, m)
        /\ streak' = [streak EXCEPT ![m] = 0]
    /\ UNCHANGED <<now, store, invocation, backend, delay_call, classify_call, cost_call, report_call, pool>>

\* calculate_delay called with the delays of a retry configuration
CallCalculateDelay ==
    /\ \E m \in DOMAIN retry_configs, rc \in 0..MaxRetryCount, exponential \in BOOLEAN :
        \E draw \in IF exponential THEN Jitters ELSE {0} :
            delay_call' = [op |-> "calculate_delay", config |-> m,
                           retry_count |-> rc,
                           base_delay |-> retry_configs[m].base_delay,
                           max_delay |-> retry_configs[m].max_delay,
                           exponential |-> exponential,
                           draw |-> draw,
                           returned |-> calculate_delay(rc, retry_configs[m].base_delay,
                                            retry_configs[m].max_delay, exponential, draw)]
    /\ UNCHANGED <<now, breakers, store, invocation, backend, cb_call, streak, classify_call, cost_call, report_call, pool>>

\* Parts of the messages of provider errors
Fragments ==
    << <<"R","a","t","e"," ","L","i","m","i","t">>,
       <<"T","I","M","E","D"," ","O","U","T">>,
       <<"S","e","r","v","e","r"," ","E","r","r","o","r">>,
       <<"c","o","n","n","e","c","t","i","o","n">>,
       <<"5","0","0">>,
       <<"4","0","1"," ","U","n","a","u","t","h","o","r","i","z","e","d">>,
       <<"B","a","d"," ","R","e","q","u","e","s","t">>,
       <<"b","o","o","m">> >>

\* str(error) of an error whose message is the parts `parts` joined by ": "
RECURSIVE Message(_)
Message(parts) ==
    IF Len(parts) = 1 THEN Fragments[parts[1]]
    ELSE Fragments[parts[1]] \o <<":", " ">> \o Message(Tail(parts))

\* the process after construction, about to classify an error whose message
\* is made of 1 to MaxFragments parts
InitClassify ==
    /\ InitProgram
    /\ backend = [m \in Models |-> "any"]
    /\ \E n \in 1..MaxFragments : \E parts \in [1..n -> 1..Len(Fragments)] :
            classify_call = [op |-> "raised", parts |-> parts]

\* classify_error called with the error raised
CallClassifyError ==
    /\ classify_call.op = "raised"
    /\ classify_call' = [op |-> "classify_error", parts |-> classify_call.parts,
                         returned |-> classify_error(Message(classify_call.parts))]
    /\ UNCHANGED <<now, breakers, store, invocation, backend, cb_call, streak, delay_call, cost_call, report_call, pool>>

NextDelay == CallCalculateDelay

SpecDelay == Init /\ [][NextDelay]_vars

\* The providers, models and token counts log_usage is called with
CostProviders == {"openai", "ollama"}
CostModels == {"gpt-4o", "gpt-4o-mini", "gpt-4-turbo", "gpt-3.5-turbo",
               "unknown", "llama3.1"}
TokenCounts == {0, 1, 250} \cup {1000 * k : k \in 1..MaxKiloTokens}

\* log_usage computing cost_usd: line 50
CallCalculateCost ==
    /\ \E provider \in CostProviders, m \in CostModels,
          tokens_input \in TokenCounts, tokens_output \in TokenCounts :
            cost_call' = [op |-> "calculate_cost", provider |-> provider,
                          model |-> m, tokens_input |-> tokens_input,
                          tokens_output |-> tokens_output,
                          returned |-> calculate_cost(provider, m,
                                           tokens_input, tokens_output)]
    /\ UNCHANGED <<now, breakers, store, invocation, backend, cb_call, streak,
                   delay_call, classify_call, report_call, pool>>

NextCost == CallCalculateCost

SpecCost == Init /\ [][NextCost]_vars

NextClassify == CallClassifyError

SpecClassify == InitClassify /\ [][NextClassify]_vars

(***************************************************************************)
(* record_failure called by several request threads, statement by          *)
(* statement. All calls are for one model; no record_success is made.      *)
(***************************************************************************)
RaceModel == "gpt-4o"

\* line 42: `if model not in self.breakers`
RaceTestEntry(t) ==
    /\ threads[t].pc = "idle"
    /\ threads[t].done < MaxThreadCalls
    /\ threads' = [threads EXCEPT ![t].pc =
                      IF RaceModel \notin DOMAIN breakers THEN "create" ELSE "bind"]
    /\ UNCHANGED <<now, breakers, store, invocation, backend, observer, manager>>

\* lines 43-48: self.breakers[model] = {...}; a dict that was stored there in
\* the meantime is replaced, and the threads that hold it keep writing to it
RaceCreateEntry(t) ==
    /\ threads[t].pc = "create"
    /\ breakers' = [m \in DOMAIN breakers \cup {RaceModel} |->
                       IF m = RaceModel
                       THEN [state |-> "closed", failure_count |-> 0,
                             last_failure |-> 0, half_open_calls |-> 0]
                       ELSE breakers[m]]
    /\ threads' = [u \in Threads |->
                      IF u = t THEN [threads[u] EXCEPT !.pc = "bind"]
                      ELSE IF threads[u].ref = "entry"
                           THEN [threads[u] EXCEPT !.ref = "replaced"]
                           ELSE threads[u]]
    /\ UNCHANGED <<now, store, invocation, backend, observer, manager>>

\* line 50: breaker = self.breakers[model]
RaceBind(t) ==
    /\ threads[t].pc = "bind"
    /\ threads' = [threads EXCEPT ![t].pc = "load", ![t].ref = "entry"]
    /\ UNCHANGED <<now, breakers, store, invocation, backend, observer, manager>>

\* line 51, first half: read breaker["failure_count"]
RaceLoad(t) ==
    /\ threads[t].pc = "load"
    /\ threads' = [threads EXCEPT ![t].pc = "store",
                                  ![t].loaded = IF threads[t].ref = "entry"
                                                THEN breakers[RaceModel].failure_count
                                                ELSE 0]
    /\ UNCHANGED <<now, breakers, store, invocation, backend, observer, manager>>

\* line 51, second half, and line 52: write failure_count, then last_failure
RaceStore(t) ==
    /\ threads[t].pc = "store"
    /\ breakers' = IF threads[t].ref = "entry"
                   THEN [breakers EXCEPT ![RaceModel].failure_count = threads[t].loaded + 1,
                                         ![RaceModel].last_failure = now]
                   ELSE breakers
    /\ threads' = [threads EXCEPT ![t].pc = "threshold"]
    /\ UNCHANGED <<now, store, invocation, backend, observer, manager>>

\* lines 55-56: the threshold check; the call returns
RaceThreshold(t) ==
    /\ threads[t].pc = "threshold"
    /\ breakers' = IF /\ threads[t].ref = "entry"
                      /\ breakers[RaceModel].failure_count >= failure_threshold
                   THEN [breakers EXCEPT ![RaceModel].state = "open"]
                   ELSE breakers
    /\ threads' = [threads EXCEPT ![t] = ThreadIdle(threads[t].done + 1)]
    /\ UNCHANGED <<now, store, invocation, backend, observer, manager>>

NextRace ==
    \E t \in Threads :
        \/ RaceTestEntry(t)
        \/ RaceCreateEntry(t)
        \/ RaceBind(t)
        \/ RaceLoad(t)
        \/ RaceStore(t)
        \/ RaceThreshold(t)

SpecRace == Init /\ [][NextRace]_vars

(***************************************************************************)
(* get_fallback_manager called by several request threads, statement by    *)
(* statement. Instances are numbered in the order they are constructed; 0  *)
(* is None.                                                                *)
(***************************************************************************)
\* line 215: `if _fallback_manager is None`
GetTestGlobal(t) ==
    /\ threads[t].pc = "idle"
    /\ threads[t].done < MaxThreadCalls
    /\ threads' = [threads EXCEPT ![t].pc =
                      IF manager.current = 0 THEN "construct" ELSE "return"]
    /\ UNCHANGED <<now, breakers, store, invocation, backend, observer, manager>>

\* line 216: _fallback_manager = FallbackManager()
GetConstruct(t) ==
    /\ threads[t].pc = "construct"
    /\ manager' = [manager EXCEPT !.created = @ + 1, !.current = manager.created + 1]
    /\ threads' = [threads EXCEPT ![t].pc = "return"]
    /\ UNCHANGED <<now, breakers, store, invocation, backend, observer>>

\* line 217: return _fallback_manager
GetReturn(t) ==
    /\ threads[t].pc = "return"
    /\ manager' = [manager EXCEPT !.returned = @ \cup {manager.current}]
    /\ threads' = [threads EXCEPT ![t] = ThreadIdle(threads[t].done + 1)]
    /\ UNCHANGED <<now, breakers, store, invocation, backend, observer>>

NextSingleton ==
    \E t \in Threads :
        \/ GetTestGlobal(t)
        \/ GetConstruct(t)
        \/ GetReturn(t)

SpecSingleton == Init /\ [][NextSingleton]_vars

NextBreaker ==
    \/ Tick(Seconds)
    \/ CallIsOpen
    \/ CallRecordFailure
    \/ CallRecordSuccess

SpecBreaker == Init /\ [][NextBreaker]_vars

(***************************************************************************)
(* ReportGenerator                                                         *)
(***************************************************************************)
\* The days rows are dated on and reports are asked for
Days == 1..MaxDay

\* The row that insert_usage stores for a log_usage call made on day `day` at
\* the instant t: the TokenUsage with its timestamp's date and its tokens_total
StoredRow(provider, m, fn, status, fallback_model, tokens_total, day, t) ==
    [ id             |-> usage_id(provider, m, fn, t),
      date           |-> day,
      provider       |-> provider,
      model          |-> m,
      function       |-> fn,
      tokens_total   |-> tokens_total,
      status         |-> status,
      error_message  |-> None,
      fallback_model |-> fallback_model,
      retry_count    |-> 0 ]

\* `if function:` and `if provider:` -- None and "" both add no condition
Truthy(x) == x # None /\ x # ""

\* WHERE DATE(timestamp) BETWEEN ? AND ?, with both bounds excluded
Selected_exclusive(db, start_date, end_date, fn, provider) ==
    {r \in db : /\ start_date < r.date /\ r.date < end_date
                /\ Truthy(fn) => r.function = fn
                /\ Truthy(provider) => r.provider = provider}

\* WHERE DATE(timestamp) BETWEEN ? AND ? [AND function = ?] [AND provider = ?]:
\* lines 67-78
Selected(db, start_date, end_date, fn, provider) ==
    {r \in db : /\ start_date <= r.date /\ r.date <= end_date
                /\ Truthy(fn) => r.function = fn
                /\ Truthy(provider) => r.provider = provider}

\* SUM(field) over the rows S
RECURSIVE SumField(_, _)
SumField(S, field) ==
    IF S = {} THEN 0
    ELSE LET r == CHOOSE x \in S : TRUE
         IN  r[field] + SumField(S \ {r}, field)

\* SELECT ... GROUP BY provider, function: lines 56-78
GroupBy(sel) ==
    { LET g == {r \in sel : r.provider = key[1] /\ r.function = key[2]}
      IN  [ provider       |-> key[1],
            function       |-> key[2],
            total_tokens   |-> SumField(g, "tokens_total"),
            call_count     |-> Cardinality(g),
            success_count  |-> Cardinality({r \in g : r.status = "success"}),
            failure_count  |-> Cardinality({r \in g : r.status = "failed"}),
            fallback_count |-> Cardinality({r \in g : r.fallback_model # None}) ]
      : key \in {<<r.provider, r.function>> : r \in sel} }

\* _execute_query: the rows fetched, or [] when the query raised (lines 83-95)
_execute_query(rows, io_ok) == IF io_ok THEN rows ELSE {}

\* count / total * 100, in thousandths of a percent
Rate(count, total) == IF total > 0 THEN (count * 100000) \div total ELSE 0

\* _group_by_function / _group_by_provider with _calculate_rates: lines 154-207
GroupedBy(rows, column) ==
    [ name \in {g[column] : g \in rows} |->
        LET gs == {g \in rows : g[column] = name}
            call_count == SumField(gs, "call_count")
        IN  [ total_tokens   |-> SumField(gs, "total_tokens"),
              call_count     |-> call_count,
              success_count  |-> SumField(gs, "success_count"),
              fallback_count |-> SumField(gs, "fallback_count"),
              success_rate   |-> Rate(SumField(gs, "success_count"), call_count),
              fallback_rate  |-> Rate(SumField(gs, "fallback_count"), call_count) ] ]

\* _build_usage_report: lines 118-152
_build_usage_report(rows, start_date, end_date) ==
    LET total_tokens == SumField(rows, "total_tokens")
        total_calls == SumField(rows, "call_count")
        total_success == SumField(rows, "success_count")
        total_fallback == SumField(rows, "fallback_count")
    IN  [ start_date        |-> start_date,
          end_date          |-> end_date,
          total_tokens      |-> total_tokens,
          total_calls       |-> total_calls,
          success_rate      |-> Rate(total_success, total_calls),
          fallback_rate     |-> Rate(total_fallback, total_calls),
          usage_by_function |-> GroupedBy(rows, "function"),
          usage_by_provider |-> GroupedBy(rows, "provider") ]

\* get_usage_report: lines 48-81
get_usage_report(db, start_date, end_date, fn, provider, io_ok) ==
    _build_usage_report(
        _execute_query(GroupBy(Selected(db, start_date, end_date, fn, provider)), io_ok),
        start_date, end_date)

\* What the rows of the reported log hold
ReportProviders == {"openai", "ollama"}
ReportFunctions == {"feedback", "guidance"}
ReportTokens == {10, 25}
\* status and fallback_model as the fallback manager writes them together
ReportOutcomes == {<<"success", None>>, <<"success", "gpt-4o-mini">>, <<"failed", None>>}

\* The filters a report is asked with
FunctionFilters == {None, "", "feedback"}
ProviderFilters == {None, "ollama"}

\* log_usage called on some day, before any report was asked for
LogUsageOn ==
    /\ report_call = NoCall
    /\ Cardinality(store) < MaxRows
    /\ \E day \in Days, provider \in ReportProviders, fn \in ReportFunctions,
          o \in ReportOutcomes, tokens \in ReportTokens :
            store' = insert_usage(store,
                        StoredRow(provider, IF provider = "openai" THEN "gpt-4o-mini" ELSE "llama3.1",
                                  fn, o[1], o[2], tokens, day, Cardinality(store)),
                        TRUE)
    /\ UNCHANGED <<now, breakers, invocation, backend, observer, pool>>

\* get_usage_report called; io_ok: whether the database answers the query
CallGetUsageReport ==
    /\ report_call = NoCall
    /\ \E start_date \in Days, end_date \in Days, fn \in FunctionFilters,
          provider \in ProviderFilters, io_ok \in BOOLEAN :
            report_call' = [op |-> "get_usage_report",
                            start_date |-> start_date, end_date |-> end_date,
                            function |-> fn, provider |-> provider,
                            answered |-> io_ok,
                            groups |-> _execute_query(
                                GroupBy(Selected(store, start_date, end_date, fn, provider)),
                                io_ok),
                            returned |-> get_usage_report(store, start_date, end_date,
                                                          fn, provider, io_ok)]
    /\ UNCHANGED <<now, breakers, store, invocation, backend, cb_call, streak,
                   delay_call, classify_call, cost_call, pool>>

NextReport == LogUsageOn \/ CallGetUsageReport

SpecReport == Init /\ [][NextReport]_vars

TypeOK ==
    /\ now \in Epochs \cup Seconds
    /\ pc \in {"idle", "for_model", "attempt", "wait", "returned", "raised"}
    /\ DOMAIN breakers \subseteq Models

(***************************************************************************)
(* Properties                                                              *)
(***************************************************************************)
Configured(fn) == fn \in DOMAIN fallback_configs
Finished == pc \in {"returned", "raised"}
Returned == pc = "returned"

\* the position of model m in the chain (a chain names no model twice)
IndexOf(chain, m) == CHOOSE k \in 1..Len(chain) : chain[k] = m

\* sum of (max_retries + 1) over the chain's models outside `skip`
RECURSIVE ChainAttempts(_, _)
ChainAttempts(chain, skip) ==
    IF chain = <<>> THEN 0
    ELSE (IF Head(chain) \in skip THEN 0
          ELSE get_retry_config(Head(chain)).max_retries + 1)
         + ChainAttempts(Tail(chain), skip)

\* every backend of the invocation's chain raises a retryable error at every call
ChainRetryable ==
    \A k \in 1..Len(fallback_chain) : backend[fallback_chain[k]] = "retryable"

\* the log_usage calls of the invocation that wrote the final row
FailedLogCalls ==
    {k \in 1..Len(logged) : /\ logged[k].usage.status = "failed"
                            /\ logged[k].usage.model = "unknown"}

\* the invocation returned the all-failed result
AllFailedResult ==
    /\ pc = "returned"
    /\ result.success = FALSE
    /\ result.error_message = "All fallback models failed"

C2_PrimarySucceeds ==
    ( /\ Configured(function)
      /\ Len(calls) >= 1
      /\ calls[1].model = fallback_configs[function].primary_model
      /\ calls[1].retry_count = 0
      /\ calls[1].returned ) =>
        /\ calls[1].outcome = "success"
        /\ pc = "returned"
        /\ Len(calls) = 1
        /\ waits = <<>>
        /\ result.success = TRUE
        /\ result.model_used = fallback_configs[function].primary_model
        /\ result.retry_count = 0
        /\ result.response = [by |-> result.model_used, attempt |-> 0]

\* the chain gpt-4o, gpt-4o-mini, gpt-3.5-turbo answered by gpt-4o at once
C2_Witness ==
    /\ function = "feedback"
    /\ pc = "returned"
    /\ result.success = TRUE
    /\ result.model_used = "gpt-4o"
    /\ Len(calls) = 1

\* the k-th call of the invocation is a model's first attempt and raised an
\* error classified non-retryable
NonRetryableFirst(k) ==
    /\ calls[k].retry_count = 0
    /\ calls[k].outcome = "non_retryable"

\* the model of the k-th call got no other call and no wait
AbandonedAfter(k) ==
    /\ \A j \in 1..Len(calls) : j # k => calls[j].model # calls[k].model
    /\ \A j \in 1..Len(waits) : waits[j].model # calls[k].model
    /\ (k = Len(calls) /\ pc \in {"attempt", "wait"}) =>
            model_index > IndexOf(fallback_chain, calls[k].model)

\* C3 as stated: after a non-retryable error on a model's first attempt the
\* model gets no further call and no wait, and the next adapter call of the
\* invocation is attempt 0 on the model that follows it in the chain.
C3_NextModelOfChain ==
    \A k \in 1..Len(calls) : NonRetryableFirst(k) =>
        /\ AbandonedAfter(k)
        /\ k < Len(calls) =>
            /\ calls[k + 1].retry_count = 0
            /\ IndexOf(fallback_chain, calls[k + 1].model)
                 = IndexOf(fallback_chain, calls[k].model) + 1

\* C3 amended: the next adapter call is attempt 0 on the first later model of
\* the chain whose breaker is not open; the models between were skipped.
C3_NonRetryableShortCircuit ==
    \A k \in 1..Len(calls) : NonRetryableFirst(k) =>
        /\ AbandonedAfter(k)
        /\ k < Len(calls) =>
            /\ calls[k + 1].retry_count = 0
            /\ IndexOf(fallback_chain, calls[k + 1].model)
                 > IndexOf(fallback_chain, calls[k].model)
            /\ \A h \in 1..Len(fallback_chain) :
                  ( /\ h > IndexOf(fallback_chain, calls[k].model)
                    /\ h < IndexOf(fallback_chain, calls[k + 1].model) )
                  => fallback_chain[h] \in skipped

\* a non-retryable first attempt, an open model skipped, the one after it called
C3_Witness ==
    \E k \in 1..Len(calls) :
        /\ NonRetryableFirst(k)
        /\ k < Len(calls)
        /\ IndexOf(fallback_chain, calls[k + 1].model)
             > IndexOf(fallback_chain, calls[k].model) + 1

\* the last direct call on the breaker was op(m)
LastCall(op, m) == cb_call.op = op /\ cb_call.model = m

\* C4: right after a record_failure, is_open is true exactly when at least
\* failure_threshold failures were recorded since the model's last
\* record_success (failure_count counts exactly those); after a
\* record_success, in any state, the count is 0 and is_open is false at any time.
C4_ThresholdAndReset ==
    \A m \in BreakerModels :
        /\ get_failure_count(breakers, m) = streak[m]
        /\ LastCall("record_failure", m) =>
              (is_open(breakers, m, cb_call.at) <=> streak[m] >= failure_threshold)
        /\ LastCall("record_success", m) =>
              /\ get_failure_count(breakers, m) = 0
              /\ get_state(breakers, m) = "closed"
              /\ \A t \in Seconds : ~is_open(breakers, m, t)

\* one model was just reset from open by a success while another has just
\* reached the threshold and is open
C4_Witness ==
    \E m, o \in BreakerModels :
        /\ LastCall("record_success", m)
        /\ cb_call.before # <<>>
        /\ cb_call.before[1].state = "open"
        /\ streak[o] = failure_threshold
        /\ is_open(breakers, o, now)

\* C5: an is_open check on an open breaker returns false and leaves half_open
\* when more than recovery_timeout seconds passed since the last failure, and
\* returns true and changes nothing otherwise; a check on a half_open breaker
\* does not repeat the transition; a failure recorded in half_open opens the
\* breaker again.
C5_Recovery ==
    \A m \in BreakerModels :
        /\ (LastCall("is_open", m) /\ cb_call.before # <<>>) =>
            LET e == cb_call.before[1]
                elapsed == cb_call.at - e.last_failure
            IN  /\ (e.state = "open" /\ elapsed > recovery_timeout) =>
                      /\ cb_call.returned = FALSE
                      /\ breakers[m] = [e EXCEPT !.state = "half_open"]
                /\ (e.state = "open" /\ elapsed <= recovery_timeout) =>
                      /\ cb_call.returned = TRUE
                      /\ breakers[m] = e
                /\ e.state = "half_open" =>
                      /\ cb_call.returned = FALSE
                      /\ breakers[m] = e
        /\ ( /\ LastCall("record_failure", m)
             /\ cb_call.before # <<>>
             /\ cb_call.before[1].state = "half_open" ) =>
                /\ breakers[m].state = "open"
                /\ breakers[m].last_failure = cb_call.at
                /\ is_open(breakers, m, cb_call.at)

\* a breaker that went from open to half_open has just been opened again by a failure
C5_Witness ==
    \E m \in BreakerModels :
        /\ LastCall("record_failure", m)
        /\ cb_call.before # <<>>
        /\ cb_call.before[1].state = "half_open"
        /\ cb_call.at - cb_call.before[1].last_failure > recovery_timeout
        /\ is_open(breakers, m, now)

C7_DefaultChain ==
    (function # None /\ ~Configured(function)) =>
        /\ fallback_chain = <<"gpt-4o-mini">>
        /\ pc = "raised" => result = Raised(MsgRequired)
        /\ (Len(calls) >= 1 /\ calls[1].returned) =>
              /\ pc = "returned"
              /\ Len(calls) = 1
              /\ result.success = TRUE

\* the log_usage calls of the invocation that wrote an attempt's row
AttemptLogCalls == {k \in 1..Len(logged) : logged[k].usage.model # "unknown"}

\* C8 as stated: after an invocation of a configured function, one usage row
\* was written for each adapter call made, successful or failed.
C8_RowPerAttempt ==
    (pc = "returned" /\ Configured(function)) =>
        Cardinality(AttemptLogCalls) = Len(calls)

\* C9 as stated: every log_usage call adds one row to the store (here: every
\* call that found the database writable has its row in the store).
C9_RowPerCall ==
    \A k \in 1..Len(logged) :
        logged[k].io_ok => (logged[k].persisted /\ logged[k].usage \in store)

\* C10: when the INSERT of a log_usage call fails, log_usage returns and the
\* invocation returns what it returns when the INSERT commits: the success
\* result with the response of the call just made, or the all-failed result;
\* and a generate that returned is never handled as a failed attempt.
C10_WriteFailureSwallowed ==
    /\ \A k \in 1..Len(logged) : ~logged[k].persisted =>
          LET u == logged[k].usage IN
          /\ pc = "returned"
          /\ k = Len(logged)
          /\ u.status = "success" =>
                /\ calls[Len(calls)] = [model |-> u.model, retry_count |-> u.retry_count,
                                        returned |-> TRUE, outcome |-> "success"]
                /\ result = FallbackResult(TRUE,
                                [by |-> u.model, attempt |-> u.retry_count],
                                u.model, u.retry_count, None,
                                IF u.fallback_model = None THEN None
                                ELSE <<"Used fallback model", u.model>>)
          /\ u.status = "failed" =>
                result = FallbackResult(FALSE, None, None, 0,
                              "All fallback models failed",
                              "Exhausted all fallback options")
    /\ Configured(function) =>
          \A k \in 1..Len(calls) : calls[k].returned => calls[k].outcome = "success"

\* a generate succeeded, the row could not be written, the caller got the response
C10_Witness ==
    /\ pc = "returned"
    /\ result.success = TRUE
    /\ Len(logged) = 1
    /\ ~logged[1].persisted
    /\ logged[1].usage \notin store

\* a step in which execute_with_fallback is called without an adapter factory
MissingFactoryStep ==
    /\ invocations' = invocations + 1
    /\ pc' = "raised"
    /\ result' = Raised(MsgRequired)

\* C11: a call without an adapter factory raises the configuration error at
\* once: in that one step no adapter call, no wait and no log_usage call is
\* made, no model is skipped, and the breakers, the usage store and the clock
\* are what they were before the call.
C11_MissingFactory ==
    [][MissingFactoryStep =>
          /\ calls' = <<>> /\ waits' = <<>> /\ logged' = <<>> /\ skipped' = {}
          /\ breakers' = breakers
          /\ store' = store
          /\ now' = now]_vars

\* the configuration error was raised by a manager with breaker entries and
\* usage rows from an earlier invocation
C11_Witness ==
    /\ pc = "raised"
    /\ result = Raised(MsgRequired)
    /\ calls = <<>>
    /\ breakers # <<>>
    /\ store # {}

\* the calls of the invocation made to model m, as positions of `calls`
CallsTo(m) == {k \in 1..Len(calls) : calls[k].model = m}

\* the invocation is for "feedback", found no breaker entry, and every call it
\* made to gpt-4o raised a retryable error
FeedbackPrimaryFailing ==
    /\ function = "feedback"
    /\ pc # "raised"
    /\ entered = <<>>
    /\ \A k \in CallsTo("gpt-4o") : calls[k].outcome = "retryable"

\* C12: for "feedback" on a manager without breaker entries, a gpt-4o that
\* fails retryably on every attempt is called exactly 3 times (attempts 0, 1,
\* 2, with a wait between them), its failure count is then 1 and its breaker
\* closed, the next call is attempt 0 on gpt-4o-mini, and when that call
\* succeeds the result is success=true, model_used="gpt-4o-mini",
\* fallback_reason="Used fallback model gpt-4o-mini".
C12_FeedbackScenario ==
    FeedbackPrimaryFailing =>
        /\ Cardinality(CallsTo("gpt-4o")) <= 3
        /\ \A k \in CallsTo("gpt-4o") : calls[k].retry_count = k - 1
        /\ (model_index > 1) =>
              /\ CallsTo("gpt-4o") = 1..3
              /\ Len(waits) >= 2
              /\ waits[1].model = "gpt-4o" /\ waits[1].retry_count = 0
              /\ waits[2].model = "gpt-4o" /\ waits[2].retry_count = 1
              /\ get_failure_count(breakers, "gpt-4o") = 1
              /\ get_state(breakers, "gpt-4o") = "closed"
              /\ "gpt-4o" \notin skipped
        /\ (Len(calls) >= 4) =>
              /\ calls[4].model = "gpt-4o-mini"
              /\ calls[4].retry_count = 0
              /\ calls[4].outcome = "success" =>
                    /\ pc = "returned"
                    /\ Len(calls) = 4
                    /\ result.success = TRUE
                    /\ result.model_used = "gpt-4o-mini"
                    /\ result.fallback_reason = <<"Used fallback model", "gpt-4o-mini">>
                    /\ result.response = [by |-> "gpt-4o-mini", attempt |-> 0]

\* gpt-4o exhausted its three attempts and gpt-4o-mini answered at once
C12_Witness ==
    /\ FeedbackPrimaryFailing
    /\ pc = "returned"
    /\ Len(calls) = 4
    /\ calls[4].outcome = "success"
    /\ result.model_used = "gpt-4o-mini"
    /\ get_failure_count(breakers, "gpt-4o") = 1

\* the last calculate_delay call used exponential backoff
ExponentialCall == delay_call.op = "calculate_delay" /\ delay_call.exponential

\* base * 2^retry_count of the last calculate_delay call
Uncapped == delay_call.base_delay * Pow2(delay_call.retry_count)

\* C13 as stated: with exponential=true the delay returned lies in
\* [base*2^retry_count, base*2^retry_count*1.3], for every retry_count.
C13_DelayInUncappedRange ==
    ExponentialCall =>
        /\ delay_call.returned >= Uncapped
        /\ 10 * delay_call.returned <= 13 * Uncapped

\* C13 amended: with exponential=true the delay returned is d + jitter, where
\* d = min(base*2^retry_count, max_delay) and 0.1*d <= jitter <= 0.3*d: it
\* lies in [1.1*d, 1.3*d], hence never above 1.3*max_delay, and within
\* [base*2^retry_count, base*2^retry_count*1.3] when base*2^retry_count is
\* at most max_delay.
C13_DelayRange ==
    ExponentialCall =>
        LET d == Min(Uncapped, delay_call.max_delay)
            jitter == delay_call.returned - d
        IN  /\ d <= delay_call.max_delay
            /\ 10 * jitter >= d /\ 10 * jitter <= 3 * d
            /\ 1000 * jitter = delay_call.draw * d
            /\ 10 * delay_call.returned >= 11 * d
            /\ 10 * delay_call.returned <= 13 * d
            /\ 10 * delay_call.returned <= 13 * delay_call.max_delay
            /\ Uncapped <= delay_call.max_delay =>
                  /\ delay_call.returned >= Uncapped
                  /\ 10 * delay_call.returned <= 13 * Uncapped

\* gpt-3.5-turbo's fourth retry: base*2^3 is 8 s, the delay is capped at 5 s
\* and the returned value is below 8 s
C13_Witness ==
    /\ ExponentialCall
    /\ delay_call.config = "gpt-3.5-turbo"
    /\ delay_call.retry_count = 3
    /\ Uncapped > delay_call.max_delay
    /\ delay_call.returned > delay_call.max_delay
    /\ delay_call.returned < Uncapped

\* The kinds in the order the claim scans them
RetryableOrder == <<"rate_limit", "timeout", "service_unavailable",
                    "connection_error", "internal_server_error">>
NonRetryableOrder == <<"invalid_api_key", "model_not_found", "invalid_request",
                       "quota_exceeded", "content_filter">>

\* The kinds that have a pattern occurring in each part of Fragments
FragmentKinds ==
    << {"rate_limit"}, {"timeout"}, {"service_unavailable", "internal_server_error"},
       {"connection_error"}, {"internal_server_error"}, {"invalid_api_key"},
       {"invalid_request"}, {} >>

\* the kinds with a pattern occurring in the message made of `parts`
KindsOf(parts) == UNION {FragmentKinds[parts[i]] : i \in 1..Len(parts)}

\* the first kind of `order` that is in `kinds`
FirstOf(order, kinds) ==
    order[CHOOSE k \in 1..Len(order) :
            /\ order[k] \in kinds
            /\ \A h \in 1..(k - 1) : order[h] \notin kinds]

InOrder(order, kinds) == \E k \in 1..Len(order) : order[k] \in kinds

\* what the claim says classify returns for the message made of `parts`
ExpectedClass(parts) ==
    IF InOrder(RetryableOrder, KindsOf(parts))
    THEN <<FirstOf(RetryableOrder, KindsOf(parts)), TRUE>>
    ELSE IF InOrder(NonRetryableOrder, KindsOf(parts))
    THEN <<FirstOf(NonRetryableOrder, KindsOf(parts)), FALSE>>
    ELSE <<"unknown", TRUE>>

\* C14: classify_error returns the first retryable kind, in the order
\* rate_limit, timeout, service_unavailable, connection_error,
\* internal_server_error, that has a pattern in the message, else the first
\* non-retryable kind in its order, else ("unknown", true); the result is that
\* of the lower-cased message, and a message matching a retryable and a
\* non-retryable pattern is classified retryable.
C14_Classify ==
    classify_call.op = "classify_error" =>
        LET parts == classify_call.parts IN
        /\ classify_call.returned = ExpectedClass(parts)
        /\ classify_call.returned = classify_error(LowerStr(Message(parts)))
        /\ ( /\ InOrder(RetryableOrder, KindsOf(parts))
             /\ InOrder(NonRetryableOrder, KindsOf(parts)) )
              => classify_call.returned[2] = TRUE

\* "401 Unauthorized: Server Error" matches invalid_api_key, service_unavailable
\* and internal_server_error, and was classified service_unavailable, retryable
C14_Witness ==
    /\ classify_call.op = "classify_error"
    /\ classify_call.parts = <<6, 3>>
    /\ classify_call.returned = <<"service_unavailable", TRUE>>

\* The price table as the documentation gives it: dollars per 1000 tokens,
\* written as millionths
PricePer1K(m) ==
    CASE m = "gpt-4o"        -> <<5000, 15000>>
      [] m = "gpt-4o-mini"   -> <<150, 600>>
      [] m = "gpt-4-turbo"   -> <<10000, 30000>>
      [] m = "gpt-3.5-turbo" -> <<500, 1500>>
      [] OTHER               -> <<>>

\* C15: for provider "openai" and a model of the price table the cost is
\* (tokens_input/1000)*input_price + (tokens_output/1000)*output_price; for
\* any other provider, or a model that is not in the table (the model
\* "unknown" of the final failed row among them), the cost is 0 whatever the
\* token counts. (Costs in billionths of a dollar, prices in millionths per
\* 1000 tokens: tokens/1000 * price millionths is tokens * price billionths.)
C15_Cost ==
    cost_call.op = "calculate_cost" =>
        LET c == cost_call
            price == PricePer1K(c.model)
        IN  IF c.provider = "openai" /\ price # <<>>
            THEN c.returned = c.tokens_input * price[1] + c.tokens_output * price[2]
            ELSE c.returned = 0

\* a priced model was charged for its tokens, here 1000 input tokens and 250
\* output tokens of gpt-4o: 0.005 + 0.00375 dollars
C15_Witness ==
    /\ cost_call.op = "calculate_cost"
    /\ cost_call.provider = "openai" /\ cost_call.model = "gpt-4o"
    /\ cost_call.tokens_input = 1000 /\ cost_call.tokens_output = 250
    /\ cost_call.returned = 8750000

\* the models of the invocation's chain
ChainModels == {fallback_chain[k] : k \in 1..Len(fallback_chain)}

\* C16: a FallbackResult returned with success=true carries a response and a
\* model_used: the model is one of the function's chain and is the model of
\* the invocation's last adapter call, which returned that response; one
\* returned with success=false carries neither, its error_message is "All
\* fallback models failed" and its fallback_reason "Exhausted all fallback
\* options", and none of the invocation's adapter calls succeeded.
C16_ResultShape ==
    pc = "returned" =>
        /\ result.success \in BOOLEAN
        /\ result.success =>
              /\ result.model_used \in ChainModels
              /\ calls # <<>>
              /\ calls[Len(calls)] = [model |-> result.model_used,
                                      retry_count |-> result.retry_count,
                                      returned |-> TRUE, outcome |-> "success"]
              /\ result.response = [by |-> result.model_used,
                                    attempt |-> result.retry_count]
              /\ result.error_message = None
        /\ ~result.success =>
              /\ result.response = None
              /\ result.model_used = None
              /\ result.error_message = "All fallback models failed"
              /\ result.fallback_reason = "Exhausted all fallback options"
              /\ \A k \in 1..Len(calls) : calls[k].outcome # "success"

\* the last model of the "feedback" chain answered after the others had failed
C16_Witness ==
    /\ pc = "returned"
    /\ function = "feedback"
    /\ result.success = TRUE
    /\ result.model_used = "gpt-3.5-turbo"
    /\ Len(calls) > 1

\* C17 as stated: in every reachable state a model whose breaker state reads
\* open (get_state) had its last failure at most recovery_timeout seconds ago.
C17_OpenWithinTimeout ==
    \A m \in DOMAIN breakers :
        get_state(breakers, m) = "open" =>
            now - breakers[m].last_failure <= recovery_timeout

\* call b is the retry that follows call a on the same model
RetryOf(a, b) ==
    /\ b.model = a.model
    /\ b.retry_count = a.retry_count + 1
    /\ a.outcome = "retryable"
    /\ \E j \in 1..Len(waits) : /\ waits[j].model = a.model
                                /\ waits[j].retry_count = a.retry_count

\* call b is the first attempt on a model that is later in the chain than a's
AdvanceOf(a, b) ==
    /\ IndexOf(fallback_chain, b.model) > IndexOf(fallback_chain, a.model)
    /\ b.retry_count = 0
    /\ a.outcome # "success"

\* the adapter calls made so far by the invocation are in order
CallsInOrder ==
    /\ \A k \in 1..Len(calls) : calls[k].model \in ChainModels
    /\ Len(calls) >= 1 => calls[1].retry_count = 0
    /\ \A k \in 1..(Len(calls) - 1) :
          RetryOf(calls[k], calls[k + 1]) \/ AdvanceOf(calls[k], calls[k + 1])
    /\ \A k \in 1..Len(calls) : calls[k].outcome = "success" => k = Len(calls)

\* the call the invocation is about to make comes after its last call
NextCallInOrder ==
    (pc = "attempt" /\ calls # <<>>) =>
        LET b == [model |-> model, retry_count |-> retry_count] IN
        RetryOf(calls[Len(calls)], b) \/ AdvanceOf(calls[Len(calls)], b)

\* a step makes at most one adapter call, and only from the one place where
\* the invocation is
OneCallAtATime ==
    \/ calls' = calls
    \/ calls' = <<>>
    \/ /\ pc = "attempt"
       /\ Len(calls') = Len(calls) + 1
       /\ SubSeq(calls', 1, Len(calls)) = calls
       /\ calls'[Len(calls')].model = model
       /\ calls'[Len(calls')].retry_count = retry_count

\* C18: within an invocation the models are called in chain order, the
\* attempts on a model have retry_count 0, 1, 2, ... and attempt k+1 is made
\* only after attempt k ended in an error classified retryable and a wait, no
\* call goes to a model the chain has advanced past, nothing is called after
\* a success, and the calls are made one at a time.
C18_StrictOrder ==
    /\ [](CallsInOrder /\ NextCallInOrder)
    /\ [][OneCallAtATime]_vars

\* all three models of the "feedback" chain were called, with retries
C18_Witness ==
    /\ function = "feedback"
    /\ Len(calls) >= 9
    /\ calls[Len(calls)].model = "gpt-3.5-turbo"
    /\ calls[Len(calls)].retry_count >= 1
    /\ \E k \in 1..Len(calls) : calls[k].outcome = "non_retryable"

\* C19 as stated: a model skipped on an open breaker gets no adapter call and
\* no usage row and keeps its failure_count through the invocation; and an
\* invocation that skipped every model of its chain makes no adapter call and
\* returns the all-failed result, with the failed usage row as its one
\* log_usage call.
C19_OpenSkipped ==
    /\ \A m \in skipped :
          /\ CallsTo(m) = {}
          /\ \A k \in 1..Len(logged) : logged[k].usage.model # m
          /\ get_failure_count(breakers, m) = get_failure_count(entered, m)
    /\ (Finished /\ skipped = ChainModels) =>
          /\ calls = <<>>
          /\ AllFailedResult
          /\ Len(logged) = 1
          /\ FailedLogCalls = {1}

\* C20 as stated, for the retry loop of one invocation: while a model's
\* breaker is half_open the invocation has made at most one call to it.
C20_SingleTrial ==
    \A m \in DOMAIN breakers :
        get_state(breakers, m) = "half_open" => Cardinality(CallsTo(m)) <= 1

\* the calls completed by the request threads 1..n
RECURSIVE CallsDone(_)
CallsDone(n) == IF n = 0 THEN 0 ELSE threads[n].done + CallsDone(n - 1)

\* no request thread is inside a call
AllIdle == \A t \in Threads : threads[t].pc = "idle"

\* C21 as stated: once the concurrent record_failure calls have returned, the
\* model's failure_count is the number of calls made (the count was 0 before
\* them) and the breaker is open exactly when that count has reached
\* failure_threshold.
C21_FailuresCountedExactly ==
    AllIdle =>
        /\ get_failure_count(breakers, RaceModel) = CallsDone(MaxThreads)
        /\ get_state(breakers, RaceModel) = "open"
              <=> get_failure_count(breakers, RaceModel) >= failure_threshold

\* C22 as stated: every call of get_fallback_manager, concurrent first calls
\* included, returns the same instance: one FallbackManager is constructed
\* per process and no two calls return different instances.
C22_OneManager ==
    /\ manager.created <= 1
    /\ Cardinality(manager.returned) <= 1

\* the attempt this step made, if it made one
AttemptMade == Len(calls') = Len(calls) + 1
LastAttempt == calls'[Len(calls')]

\* the attempt was the last one its model is allowed, and failed retryably
ExhaustedAttempt(c) ==
    /\ c.outcome = "retryable"
    /\ c.retry_count = get_retry_config(c.model).max_retries

\* a step in which record_failure(m) was called
FailureRecorded(m) ==
    \/ m \in DOMAIN breakers' /\ m \notin DOMAIN breakers
    \/ /\ m \in DOMAIN breakers /\ m \in DOMAIN breakers'
       /\ \/ breakers'[m].failure_count > breakers[m].failure_count
          \/ breakers'[m].last_failure # breakers[m].last_failure

\* what an attempt does to the breakers
AttemptFrame ==
    /\ (AttemptMade /\ LastAttempt.outcome = "non_retryable") =>
          breakers' = breakers
    /\ \A m \in Models :
          FailureRecorded(m) <=>
             AttemptMade /\ LastAttempt.model = m /\ ExhaustedAttempt(LastAttempt)
    /\ \A m \in Models :
          FailureRecorded(m) =>
             /\ breakers' = record_failure(breakers, m, now)
             /\ \A k \in 1..Len(calls) :
                   ~(calls[k].model = m /\ ExhaustedAttempt(calls[k]))

\* a model whose backend always fails non-retryably has no open breaker, is
\* never skipped, and gets one attempt in each invocation that comes to it
NonRetryableModelStaysClosed ==
    \A m \in Models :
        backend[m] = "non_retryable" =>
            /\ get_state(breakers, m) = "closed"
            /\ get_failure_count(breakers, m) = 0
            /\ m \notin skipped
            /\ Cardinality(CallsTo(m)) <= 1
            /\ (/\ pc # "idle"
                /\ m \in ChainModels
                /\ model_index > IndexOf(fallback_chain, m)) =>
                   Cardinality(CallsTo(m)) = 1

\* C23: an attempt that fails non-retryably changes no breaker entry, on a
\* first attempt or a retry; record_failure(model) is called once per
\* invocation and model, exactly when the attempt with retry_count ==
\* max_retries failed retryably; and a model that always fails non-retryably
\* keeps a closed breaker and is attempted once in each invocation that
\* comes to it.
C23_NonRetryableFrame ==
    /\ [][AttemptFrame]_vars
    /\ []NonRetryableModelStaysClosed

\* a retry on gpt-4o-mini failed non-retryably after gpt-4o had exhausted its
\* attempts, and gpt-3.5-turbo, always failing non-retryably, is attempted
\* for the third invocation in a row
C23_Witness ==
    /\ invocations = MaxFailingInvocations
    /\ function = "feedback"
    /\ backend["gpt-3.5-turbo"] = "non_retryable"
    /\ \E k \in 1..Len(calls) :
          /\ calls[k].model = "gpt-4o-mini"
          /\ calls[k].retry_count >= 1
          /\ calls[k].outcome = "non_retryable"
    /\ get_failure_count(breakers, "gpt-4o") = MaxFailingInvocations
    /\ "gpt-4o-mini" \notin DOMAIN breakers
    /\ CallsTo("gpt-3.5-turbo") # {}

\* the usage row the invocation handed to log_usage last
LastLogged == logged[Len(logged)]

\* C24: when an invocation returns success, the one usage row it logged has
\* status success, the model used and the result's retry_count; if the model
\* used is not the first element of the chain (whether the first element was
\* called or skipped on an open breaker) the row's fallback_model is the
\* model used and the result's fallback_reason is "Used fallback model
\* <model>", and if it is the first element both are null; the row is the one
\* stored when the insert commits.
C24_FallbackFields ==
    (pc = "returned" /\ result.success) =>
        /\ Len(logged) = 1
        /\ LastLogged.usage.status = "success"
        /\ LastLogged.usage.model = result.model_used
        /\ LastLogged.usage.retry_count = result.retry_count
        /\ LastLogged.usage.error_message = None
        /\ IF result.model_used # fallback_chain[1]
           THEN /\ LastLogged.usage.fallback_model = result.model_used
                /\ result.fallback_reason = <<"Used fallback model", result.model_used>>
           ELSE /\ LastLogged.usage.fallback_model = None
                /\ result.fallback_reason = None
        /\ LastLogged.persisted => LastLogged.usage \in store

\* gpt-4o-mini answered while the first element of the chain, gpt-4o,
\* was never called because its breaker was open
C24_Witness ==
    /\ pc = "returned"
    /\ result.success = TRUE
    /\ function = "feedback"
    /\ "gpt-4o" \in skipped
    /\ CallsTo("gpt-4o") = {}
    /\ result.model_used = "gpt-4o-mini"
    /\ LastLogged.usage.fallback_model = "gpt-4o-mini"

\* a failed attempt is followed by a wait and a retry exactly when it was
\* classified retryable and its retry_count is below the model's max_retries
RetryDecision ==
    (AttemptMade /\ LastAttempt.outcome # "success") =>
        (pc' = "wait" <=>
            /\ LastAttempt.outcome = "retryable"
            /\ LastAttempt.retry_count < get_retry_config(LastAttempt.model).max_retries)

\* record_failure(m) was called in the invocation
RecordedInInvocation(m) ==
    get_failure_count(breakers, m) = get_failure_count(entered, m) + 1

\* should_retry would refuse every error that model m's backend raises
NeverListed(m) ==
    \A e \in AdapterMessages :
        MayRaise(m, e) =>
            \A rc \in 0..MaxRetryCount :
                ~should_retry(rc, get_retry_config(m).max_retries, Classified[e][1],
                              get_retry_config(m).retryable_errors)

\* a model whose errors are retryable for the classifier and not listed in its
\* retryable_errors is retried up to max_retries
UnlistedErrorsRetried ==
    \A m \in ChainModels :
        (/\ backend[m] = "unlisted"
         /\ pc # "idle"
         /\ model_index > IndexOf(fallback_chain, m)
         /\ m \notin skipped) =>
            /\ NeverListed(m)
            /\ Cardinality(CallsTo(m)) = get_retry_config(m).max_retries + 1
            /\ \A k \in CallsTo(m) : calls[k].outcome = "retryable"
            /\ RecordedInInvocation(m)

\* C25: whether a failed attempt is retried depends on the classifier's
\* verdict and the attempt count only, never on the model's
\* RetryConfig.retryable_errors: an error classified retryable whose type the
\* list does not name (unknown, or connection_error on gpt-4o) is retried up
\* to max_retries.
C25_RetryIgnoresList ==
    /\ [][RetryDecision]_vars
    /\ []UnlistedErrorsRetried

\* gpt-4o, raising only errors its retryable_errors does not list, was called
\* three times in the invocation and its exhaustion counted by the breaker
C25_Witness ==
    /\ function = "feedback"
    /\ backend["gpt-4o"] = "unlisted"
    /\ Cardinality(CallsTo("gpt-4o")) = 3
    /\ Len(waits) >= 2
    /\ model_index > 1
    /\ get_failure_count(breakers, "gpt-4o") = get_failure_count(entered, "gpt-4o") + 1

\* the stored rows dated within [start, end] that pass the filters of the
\* report call c; `given` says when a filter value counts as a filter
RowsMatching(c, given(_)) ==
    {r \in store : /\ r.date \in c.start_date..c.end_date
                   /\ given(c.function) => r.function = c.function
                   /\ given(c.provider) => r.provider = c.provider}

\* the report of call c conserves the rows M
ConservesRows(c, M) ==
    /\ c.returned.total_calls = Cardinality(M)
    /\ \A r \in M :
          Cardinality({g \in c.groups : /\ g.provider = r.provider
                                        /\ g.function = r.function}) = 1
    /\ \A g \in c.groups :
          /\ g.call_count = Cardinality({r \in M : /\ r.provider = g.provider
                                                   /\ r.function = g.function})
          /\ g.call_count >= 1
          /\ g.success_count + g.failure_count <= g.call_count
    /\ c.returned.total_tokens = SumField(M, "tokens_total")
    /\ Cardinality({r \in M : r.status = "success"})
          + Cardinality({r \in M : r.status = "failed"}) <= c.returned.total_calls
    /\ c.returned.success_rate =
          Rate(Cardinality({r \in M : r.status = "success"}), Cardinality(M))
    /\ c.returned.fallback_rate =
          Rate(Cardinality({r \in M : r.fallback_model # None}), Cardinality(M))
    /\ M = {} => c.returned.success_rate = 0 /\ c.returned.fallback_rate = 0
    /\ c.returned.success_rate \in 0..100000
    /\ c.returned.fallback_rate \in 0..100000
    /\ \A f \in DOMAIN c.returned.usage_by_function :
          c.returned.usage_by_function[f].call_count =
              Cardinality({r \in M : r.function = f})
    /\ \A p \in DOMAIN c.returned.usage_by_provider :
          c.returned.usage_by_provider[p].call_count =
              Cardinality({r \in M : r.provider = p})

GivenWhenNotNone(x) == x # None
GivenWhenTruthy(x) == x # None /\ x # ""

ClosedBelowThreshold ==
    \A m \in DOMAIN breakers :
        /\ breakers[m].state \in {"closed", "open", "half_open"}
        /\ breakers[m].state = "closed" <=> breakers[m].failure_count < failure_threshold

\* the last call was a record_failure on a half-open entry: the entry is open
\* again, one failure higher, its last_failure the time of the call
HalfOpenFailureReopens ==
    (/\ cb_call.op = "record_failure"
     /\ cb_call.before # <<>>
     /\ cb_call.before[1].state = "half_open") =>
        /\ breakers[cb_call.model].state = "open"
        /\ breakers[cb_call.model].failure_count = cb_call.before[1].failure_count + 1
        /\ breakers[cb_call.model].last_failure = cb_call.at
        /\ is_open(breakers, cb_call.model, cb_call.at)

\* C27: after any sequence of is_open, record_failure and record_success
\* calls made one after another, an entry is closed iff its failure_count is
\* below failure_threshold; open and half_open entries carry a count at or
\* above it (open -> half_open keeps the count), so one failure in half_open
\* re-opens the breaker with a fresh last_failure.
C27_ClosedIffBelowThreshold ==
    ClosedBelowThreshold /\ HalfOpenFailureReopens

\* a failure recorded on a half-open entry, later than the failure that had
\* opened it
C27_Witness ==
    /\ cb_call.op = "record_failure"
    /\ cb_call.before # <<>>
    /\ cb_call.before[1].state = "half_open"
    /\ cb_call.before[1].failure_count = failure_threshold
    /\ cb_call.at > cb_call.before[1].last_failure + recovery_timeout
    /\ breakers[cb_call.model].state = "open"

\* sum of max_retries over the chain's models
RECURSIVE ChainRetries(_)
ChainRetries(chain) ==
    IF chain = <<>> THEN 0
    ELSE get_retry_config(Head(chain)).max_retries + ChainRetries(Tail(chain))

\* the waits of the invocation made for model m, as positions of `waits`
WaitsFor(m) == {k \in 1..Len(waits) : waits[k].model = m}

\* the adapter calls and waits of the invocation are within their bounds, in
\* total and for each model
CallBound ==
    pc # "idle" =>
        /\ Len(calls) <= ChainAttempts(fallback_chain, skipped)
        /\ ChainAttempts(fallback_chain, skipped) <= ChainAttempts(fallback_chain, {})
        /\ Len(waits) <= ChainRetries(fallback_chain)
        /\ \A m \in ChainModels :
              /\ Cardinality(CallsTo(m)) <= get_retry_config(m).max_retries + 1
              /\ Cardinality(WaitsFor(m)) <= get_retry_config(m).max_retries

\* C28: every invocation of execute_with_fallback ends, by returning or
\* raising, after at most the sum over the chain's models of (max_retries + 1)
\* adapter calls and at most the sum of max_retries waits, whatever the
\* backends answer and whatever state the breakers are in.
C28_BoundedTermination ==
    /\ []CallBound
    /\ Running ~> Finished

\* an invocation for "feedback" that ended after all 3 + 4 + 6 calls and
\* 2 + 3 + 5 waits its chain allows
C28_Witness ==
    /\ Finished
    /\ function = "feedback"
    /\ Len(calls) = 13
    /\ Len(calls) = ChainAttempts(fallback_chain, {})
    /\ Len(waits) = 10
    /\ Len(waits) = ChainRetries(fallback_chain)

\* the attempts of the invocation that are followed by a wait: those that
\* failed retryably below max_retries, as positions of `calls`
Retried ==
    {k \in 1..Len(calls) :
        /\ calls[k].outcome = "retryable"
        /\ calls[k].retry_count < get_retry_config(calls[k].model).max_retries}

\* the j-th of them
NthRetried(j) == CHOOSE k \in Retried : Cardinality({i \in Retried : i <= k}) = j

\* the waits made are, in order, one for each such attempt, each with the
\* delay of its attempt; a wait is pending only right after such an attempt,
\* and the attempt that follows one is made after its wait
WaitDiscipline ==
    /\ Len(waits) = Cardinality(Retried) - (IF pc = "wait" THEN 1 ELSE 0)
    /\ pc = "wait" => calls # <<>> /\ Len(calls) \in Retried
    /\ \A j \in 1..Len(waits) :
          LET c == calls[NthRetried(j)] IN
          /\ waits[j].model = c.model
          /\ waits[j].retry_count = c.retry_count
          /\ waits[j].delay = delay_range(c.retry_count, get_retry_config(c.model))
          /\ waits[j].delay.least >= 0
    /\ \A k \in Retried :
          k < Len(calls) =>
              /\ calls[k + 1].model = calls[k].model
              /\ calls[k + 1].retry_count = calls[k].retry_count + 1

\* a wait is one step of its own, taken where the invocation waits
WaitStep ==
    waits' # waits =>
        \/ waits' = <<>>
        \/ /\ pc = "wait"
           /\ Len(waits') = Len(waits) + 1
           /\ calls' = calls
           /\ breakers' = breakers
           /\ pc' = "attempt"
           /\ model_index' = model_index

\* C29: a blocking wait is made exactly once after each attempt that failed
\* retryably with retry_count < max_retries, before the next attempt on the
\* same model, with the delay calculated from the failed attempt's
\* retry_count and the model's RetryConfig; there is no wait after a success,
\* after a non-retryable error, after a model's last attempt, after a skip on
\* an open breaker, or between models.
C29_WaitBetweenRetries ==
    /\ []WaitDiscipline
    /\ [][WaitStep]_vars

\* an invocation that skipped gpt-4o, waited twice between three attempts on
\* gpt-4o-mini, the third failing non-retryably, and went on to gpt-3.5-turbo
\* without a wait
C29_Witness ==
    /\ function = "feedback"
    /\ "gpt-4o" \in skipped
    /\ Len(calls) = 4
    /\ calls[3].model = "gpt-4o-mini" /\ calls[3].outcome = "non_retryable"
    /\ calls[4].model = "gpt-3.5-turbo" /\ calls[4].outcome = "success"
    /\ Len(waits) = 2
    /\ waits[2].delay = [least |-> 3300, most |-> 3900]

\* the last reading of the clock in a run
LastReading == MaxEpoch * (recovery_timeout + 1)

\* the loop over the chain has come to model m
Reached(m) ==
    /\ pc = "for_model"
    /\ model_index <= Len(fallback_chain)
    /\ fallback_chain[model_index] = m

\* m's breaker is open, and its recovery timeout ends while the clock runs
OpenRecoverable(m) ==
    /\ m \in DOMAIN breakers
    /\ breakers[m].state = "open"
    /\ breakers[m].last_failure + recovery_timeout < LastReading

\* the invocation was entered with m's breaker open and has called m
TrialCalled(m) == get_state(entered, m) = "open" /\ CallsTo(m) # {}

\* if time keeps advancing and the loop keeps coming to m, an open m is
\* eventually called again
OpenEventuallyTried ==
    \A m \in Models :
        []<>Reached(m) => (OpenRecoverable(m) ~> TrialCalled(m))

\* a trial call that returned has closed the breaker and ended the invocation
TrialSuccessCloses ==
    \A m \in Models :
        TrialCalled(m) =>
            \A k \in CallsTo(m) :
                calls[k].returned =>
                    /\ get_state(breakers, m) = "closed"
                    /\ get_failure_count(breakers, m) = 0
                    /\ k = Len(calls)
                    /\ pc = "returned"
                    /\ result.success = TRUE
                    /\ result.model_used = m

\* a model whose breaker was not open when the invocation was entered is not
\* skipped, and is called when the loop comes to it
ClosedCalledNormally ==
    /\ \A m \in skipped : get_state(entered, m) = "open"
    /\ \A m \in ChainModels :
          (/\ pc # "idle"
           /\ model_index > IndexOf(fallback_chain, m)
           /\ get_state(entered, m) # "open") => CallsTo(m) # {}

\* C30 as stated: an open breaker does not stay open for ever: if time keeps
\* advancing and execute_with_fallback keeps being invoked for a function
\* whose chain reaches the model, the model is eventually called again, as a
\* half-open trial; if that call succeeds the breaker is closed with
\* failure_count 0, and later invocations call the model normally.
C30_OpenRecovers ==
    /\ OpenEventuallyTried
    /\ []TrialSuccessCloses
    /\ []ClosedCalledNormally

\* the same for the invocations of configured functions
TrialSuccessClosesConfigured == Configured(function) => TrialSuccessCloses

=============================================================================
